---- MODULE Spec2Model ----
(***************************************************************************)
(* A model of adb_auto_demo.py: the ADB helper (hierarchy dumps, XML       *)
(* lookups, polling loops, taps, text entry, template matching) and the    *)
(* NodeChecker convenience layer.                                           *)
(*                                                                          *)
(* Text is a sequence of one-character strings.  CR and LF stand for the    *)
(* carriage-return and line-feed characters.  An exception that leaves a    *)
(* method is the outcome [kind |-> "raise"].                                *)
(***************************************************************************)
EXTENDS Integers, Sequences, FiniteSets, TLC

(***************************************************************************)
(* Bounds of the exploration.                                               *)
(***************************************************************************)
MaxRetries == 2      \* largest explicit retries / repeat argument
MaxIndex == 2        \* largest index argument
MaxTimes == 2        \* largest times argument of scrollable
MaxNodes == 2        \* most nodes in a dumped hierarchy
MaxContentLen == 2   \* most characters in a dumped text
MaxTextLen == 1      \* most characters in a text argument
MaxSide == 2         \* largest side of the score matrix / template

(***************************************************************************)
(* Program constants.                                                       *)
(***************************************************************************)
ClickBudget == 15        \* click_coordinates_xml: for _ in range(15)
ScrollBudget == 15       \* scrollable: for _ in range(15)
DefaultRepeat == 20      \* kwargs.get("repeat", 20)
DefaultIndex == 0        \* kwargs.get("index", 0)
DefaultThreshold == 10   \* threshold: float = 1, in tenths

CR == "CR"
LF == "LF"

(***************************************************************************)
(* Python built-ins used by the code.                                       *)
(***************************************************************************)
\* range(n): the number of iterations of `for _ in range(n)`
RangeLen(n) == IF n > 0 THEN n ELSE 0

\* t in c, for strings
Contains(t, c) ==
    \E i \in 0..(Len(c) - Len(t)) : SubSeq(c, i + 1, i + Len(t)) = t

\* s.split("][")[0]
SplitFirst(s) ==
    LET hits == {i \in 1..(Len(s) - 1) : s[i] = "]" /\ s[i + 1] = "["}
    IN  IF hits = {} THEN s
        ELSE SubSeq(s, 1, (CHOOSE i \in hits : \A j \in hits : i <= j) - 1)

IsNotOpen(c) == c # "["

\* s.replace("[", "")
RemoveOpen(s) == SelectSeq(s, IsNotOpen)

\* s.split(",")
RECURSIVE SplitComma(_)
SplitComma(s) ==
    LET hits == {i \in 1..Len(s) : s[i] = ","}
    IN  IF hits = {} THEN <<s>>
        ELSE LET k == CHOOSE i \in hits : \A j \in hits : i <= j
             IN  <<SubSeq(s, 1, k - 1)>> \o SplitComma(SubSeq(s, k + 1, Len(s)))

Digits == <<"0", "1", "2", "3", "4", "5", "6", "7", "8", "9">>

IsDigit(c) == \E d \in 1..10 : Digits[d] = c

DigitVal(c) == (CHOOSE d \in 1..10 : Digits[d] = c) - 1

RECURSIVE DigitsVal(_)
DigitsVal(s) ==
    IF s = <<>> THEN 0
    ELSE 10 * DigitsVal(SubSeq(s, 1, Len(s) - 1)) + DigitVal(s[Len(s)])

\* int(s) succeeds: an optional sign, then one or more digits
IsIntLiteral(s) ==
    LET body == IF s # <<>> /\ s[1] \in {"-", "+"} THEN Tail(s) ELSE s
    IN  body # <<>> /\ \A i \in 1..Len(body) : IsDigit(body[i])

\* int(s), for s with IsIntLiteral(s)
ParseInt(s) ==
    IF s[1] = "-" THEN 0 - DigitsVal(Tail(s))
    ELSE IF s[1] = "+" THEN DigitsVal(Tail(s))
    ELSE DigitsVal(s)

\* bounds.attrib["bounds"].split("][")[0].replace("[", "").split(",")
BoundsFields(bounds) == SplitComma(RemoveOpen(SplitFirst(bounds)))

Return(v) == [kind |-> "return", exc |-> "", value |-> v]
Raise(e) == [kind |-> "raise", exc |-> e, value |-> <<>>]

\* The list comprehension over the matched nodes followed by
\* coords.extend(tuple(map(int, coord)) ...): every node's bounds attribute is
\* read first (KeyError when one is missing), then every field is converted
\* (ValueError when one is no integer literal).
ParseCoordinates(matched) ==
    IF \E i \in 1..Len(matched) : ~matched[i].hasBounds
    THEN Raise("KeyError")
    ELSE LET fields == [i \in 1..Len(matched) |-> BoundsFields(matched[i].bounds)]
         IN  IF \E i \in 1..Len(fields) : \E j \in 1..Len(fields[i]) :
                    ~IsIntLiteral(fields[i][j])
             THEN Raise("ValueError")
             ELSE Return([i \in 1..Len(fields) |->
                            [j \in 1..Len(fields[i]) |-> ParseInt(fields[i][j])]])

(***************************************************************************)
(* The device's UI hierarchy, as dump_hierarchy returns it: the document    *)
(* text and the <node> elements it holds, in document order.  The <hierarchy>*)
(* root carries no bounds attribute.                                         *)
(***************************************************************************)
Names == {"A", "B"}

RECURSIVE NatToStr(_)
NatToStr(n) ==
    IF n < 10 THEN <<Digits[n + 1]>>
    ELSE NatToStr(n \div 10) \o <<Digits[(n % 10) + 1]>>

IntToStr(n) == IF n < 0 THEN <<"-">> \o NatToStr(0 - n) ELSE NatToStr(n)

\* the bounds attribute of a node whose rectangle is (a, b)-(c, d)
FormatBounds(a, b, c, d) ==
    <<"[">> \o IntToStr(a) \o <<",">> \o IntToStr(b) \o <<"]", "[">>
    \o IntToStr(c) \o <<",">> \o IntToStr(d) \o <<"]">>

Corners == {-5, 0, 1, 10}

WF1 == FormatBounds(1, 2, 3, 4)
WF2 == FormatBounds(-5, 10, 20, 30)
NoPair == <<>>
OneField == <<"[", "7", "]", "[", "8", "]">>
ThreeFields == <<"[", "1", ",", "2", ",", "3", "]", "[", "4", ",", "5", "]">>
NotANumber == <<"[", "x", ",", "2", "]", "[", "3", ",", "4", "]">>
Unbracketed == <<"1", ",", "2">>

WellFormedBounds == {FormatBounds(a, b, 20, 30) : a, b \in Corners} \cup {WF1}
MalformedBounds == {NoPair, OneField, ThreeFields, NotANumber, Unbracketed}

Node(n, b) == [name |-> n, hasBounds |-> TRUE, bounds |-> b]
RootNode == [name |-> "hierarchy", hasBounds |-> FALSE, bounds |-> <<>>]

\* nodes that may appear anywhere, and nodes explored only in one-node trees
CommonNodes == {Node("A", WF1), Node("B", WF2), Node("A", NoPair)}
RareNodes == {Node("A", b) : b \in (WellFormedBounds \cup MalformedBounds)}

RECURSIVE SeqsUpTo(_, _)
SeqsUpTo(S, n) ==
    IF n = 0 THEN {<<>>}
    ELSE LET shorter == SeqsUpTo(S, n - 1)
         IN  shorter \cup {Append(q, x) : q \in shorter, x \in S}

Trees == SeqsUpTo(CommonNodes, MaxNodes) \cup {<<n>> : n \in RareNodes}

ContentChars == {"a", CR, LF}
Contents == SeqsUpTo(ContentChars, MaxContentLen)

Hierarchy(t, n) == [text |-> t, nodes |-> n]

TextHierarchies == {Hierarchy(t, <<>>) : t \in Contents}
TreeHierarchies == {Hierarchy(<<>>, n) : n \in Trees}

(***************************************************************************)
(* resources/window_dump_0.xml                                              *)
(***************************************************************************)
NoFile == [exists |-> FALSE, text |-> <<>>, nodes |-> <<>>]

LineSeps == {<<LF>>, <<CR, LF>>}  \* os.linesep: POSIX, Windows

\* file.write(xml_content) on a file opened with open(path, "w") (newline=None):
\* every "\n" is written as os.linesep
RECURSIVE TranslateWrite(_, _)
TranslateWrite(s, linesep) ==
    IF s = <<>> THEN <<>>
    ELSE (IF Head(s) = LF THEN linesep ELSE <<Head(s)>>)
         \o TranslateWrite(Tail(s), linesep)

\* file.read() on a file opened with open(path, "r") (newline=None): universal
\* newlines, "\r\n" and "\r" are read as "\n"
RECURSIVE TranslateRead(_)
TranslateRead(s) ==
    IF s = <<>> THEN <<>>
    ELSE IF Head(s) = CR
         THEN IF Len(s) >= 2 /\ s[2] = LF
              THEN <<LF>> \o TranslateRead(SubSeq(s, 3, Len(s)))
              ELSE <<LF>> \o TranslateRead(Tail(s))
         ELSE <<Head(s)>> \o TranslateRead(Tail(s))

\* dump_xml: the hierarchy the device returns is written to the fixed path,
\* replacing what the file held
dump_xml(h, linesep) ==
    [exists |-> TRUE, text |-> TranslateWrite(h.text, linesep), nodes |-> h.nodes]

(***************************************************************************)
(* html.parse(path).xpath(element)                                          *)
(***************************************************************************)
XPathA == "//node[@text='A']"
XPathB == "//node[@text='B']"
XPathAny == "//*"
XPathBad == "//node["
XPaths == {XPathA, XPathB, XPathAny, XPathBad}

IsNamedA(n) == n.name = "A"
IsNamedB(n) == n.name = "B"

\* the nodes an expression selects, in document order; an expression lxml
\* cannot compile raises
XPathEval(nodes, element) ==
    IF element = XPathA THEN Return(SelectSeq(nodes, IsNamedA))
    ELSE IF element = XPathB THEN Return(SelectSeq(nodes, IsNamedB))
    ELSE IF element = XPathAny THEN Return(<<RootNode>> \o nodes)
    ELSE Raise("XPathEvalError")

\* a keyword argument: its name and its value, a string or an integer
KwStr(k, v) == [key |-> k, isInt |-> FALSE, s |-> v, n |-> 0]
KwInt(k, v) == [key |-> k, isInt |-> TRUE, s |-> "", n |-> v]

\* seq[index], for index >= 0
ElementAt(seq, index) ==
    IF index < Len(seq) THEN Return(seq[index + 1]) ELSE Raise("IndexError")

\* find_xml(element, path_file, index): (coords, node)
find_xml(element, file, index) ==
    LET etree_xml ==
            IF element.isInt THEN Raise("TypeError")
            ELSE IF ~file.exists THEN Raise("OSError")
            ELSE XPathEval(file.nodes, element.s)
    IN  IF etree_xml.kind = "raise" THEN Return(<<>>)   \* except: return ([], None)
        ELSE LET coords == ParseCoordinates(etree_xml.value)
             IN  IF coords.kind = "raise" THEN coords
                 ELSE IF etree_xml.value # <<>>
                         /\ ElementAt(etree_xml.value, index).kind = "raise"
                      THEN Raise("IndexError")
                      ELSE coords

\* get_coordinates_xml(element), applied to the file its own dump_xml wrote
get_coordinates_xml(element, file) ==
    LET etree_xml == XPathEval(file.nodes, element)
    IN  IF etree_xml.kind = "raise" THEN etree_xml
        ELSE ParseCoordinates(etree_xml.value)

(***************************************************************************)
(* State.                                                                   *)
(*   call       the method being run and its arguments                      *)
(*   pc         "call" while the method runs, "done" once it has returned   *)
(*              or raised                                                   *)
(*   attempt    iterations of the polling loop started so far               *)
(*   file       resources/window_dump_0.xml                                 *)
(*   linesep    os.linesep of the platform                                  *)
(*   log        what the method did to the device and the clock, in order   *)
(*   result     what the method returned or raised                          *)
(*   scores     the matrix cv2.matchTemplate returned                       *)
(*   firstSeen  history: the first attempt at which the device showed the   *)
(*              target of the call (0: not yet)                             *)
(*   callers    the concurrent callers of check_text_xml: arguments, program*)
(*              counter, locals and result of each; `seen` is history, the  *)
(*              latest write at the time of the caller's latest read        *)
(*   lastWrite  history: the caller and the content of the latest write     *)
(***************************************************************************)
VARIABLES call, pc, attempt, file, linesep, log, result, scores, firstSeen,
          callers, lastWrite

seqVars == <<call, pc, attempt, log, result, scores, firstSeen>>
raceVars == <<callers, lastWrite>>
vars == <<call, pc, attempt, file, linesep, log, result, scores, firstSeen,
          callers, lastWrite>>

Pending == [kind |-> "pending", exc |-> "", value |-> "", coords |-> <<>>]
Returns(v) == [kind |-> "return", exc |-> "", value |-> v, coords |-> <<>>]
ReturnsCoords(c) == [kind |-> "return", exc |-> "", value |-> "coords", coords |-> c]
Raises(e) == [kind |-> "raise", exc |-> e, value |-> "", coords |-> <<>>]

Event(e) == [ev |-> e, cmd |-> <<>>]
Shell(c) == [ev |-> "shell", cmd |-> c]

\* click(x, y): self.shell(f"input tap {x} {y}")
click(x, y) == Shell(<<"input tap", x, y>>)

IsTap(e) == e.ev = "shell" /\ e.cmd[1] = "input tap"

\* what one iteration of a polling loop decides: return or raise (stop) with the
\* shell commands issued, or sleep and go round again
Stop(res, cmds) == [stop |-> TRUE, result |-> res, shell |-> cmds]
Continue == [stop |-> FALSE, result |-> Pending, shell |-> <<>>]

\* kwargs.get(key, default), for the integer-valued keywords
KwGet(kwargs, key, default) ==
    LET hits == {i \in 1..Len(kwargs) : kwargs[i].key = key}
    IN  IF hits = {} THEN default ELSE kwargs[CHOOSE i \in hits : TRUE].n

\* kwargs.get(key, default), for the string-valued keywords
KwGetStr(kwargs, key, default) ==
    LET hits == {i \in 1..Len(kwargs) : kwargs[i].key = key}
    IN  IF hits = {} THEN default ELSE kwargs[CHOOSE i \in hits : TRUE].s

\* self.device(text=text).exists
UiExists(h, label) == \E i \in 1..Len(h.nodes) : h.nodes[i].name = label

(***************************************************************************)
(* One iteration of each polling loop, after its dump.                      *)
(***************************************************************************)
\* check_text_xml: read the file back and test `text in xml_content`
CheckTextXmlStep(text, f) ==
    IF Contains(text, TranslateRead(f.text))
    THEN Stop(Returns("True"), <<>>)
    ELSE Continue

\* check_text: self.device(text=text).exists
CheckTextStep(label, h) ==
    IF UiExists(h, label) THEN Stop(Returns("True"), <<>>) ELSE Continue

\* click_coordinates_xml without the `return True` after the click
ClickCoordinatesXmlStep_NoReturn(part, index) ==
    IF part.kind = "raise" THEN Stop(Raises(part.exc), <<>>)
    ELSE IF part.value = <<>> THEN Continue
    ELSE LET coords == ElementAt(part.value, index)
         IN  IF coords.kind = "raise" THEN Stop(Raises(coords.exc), <<>>)
             ELSE IF Len(coords.value) < 2 THEN Stop(Raises("IndexError"), <<>>)
             ELSE [stop |-> FALSE, result |-> Pending,
                   shell |-> <<click(coords.value[1], coords.value[2])>>]

\* click_coordinates_xml: part[index], then click(coords[0], coords[1])
ClickCoordinatesXmlStep(part, index) ==
    IF part.kind = "raise" THEN Stop(Raises(part.exc), <<>>)
    ELSE IF part.value = <<>> THEN Continue
    ELSE LET coords == ElementAt(part.value, index)
         IN  IF coords.kind = "raise" THEN Stop(Raises(coords.exc), <<>>)
             ELSE IF Len(coords.value) < 2 THEN Stop(Raises("IndexError"), <<>>)
             ELSE Stop(Returns("True"), <<click(coords.value[1], coords.value[2])>>)

\* scrollable: part[index], then `times` clicks at coords[0], coords[1]
ScrollableStep(part, index, times) ==
    IF part.kind = "raise" THEN Stop(Raises(part.exc), <<>>)
    ELSE IF part.value = <<>> THEN Continue
    ELSE LET coords == ElementAt(part.value, index)
         IN  IF coords.kind = "raise" THEN Stop(Raises(coords.exc), <<>>)
             ELSE IF RangeLen(times) = 0 THEN Stop(Returns("True"), <<>>)
             ELSE IF Len(coords.value) < 2 THEN Stop(Raises("IndexError"), <<>>)
             ELSE Stop(Returns("True"),
                       [i \in 1..RangeLen(times) |->
                            click(coords.value[1], coords.value[2])])

\* is_element_checked: the inner loop over kwargs.items(), from the k-th item
RECURSIVE FirstChecked(_, _, _, _)
FirstChecked(kwargs, k, f, index) ==
    IF k > Len(kwargs) THEN Continue
    ELSE LET found == find_xml(kwargs[k], f, index)
         IN  IF found.kind = "raise" THEN Stop(Raises(found.exc), <<>>)
             ELSE IF found.value # <<>> THEN Stop(Returns(kwargs[k].key), <<>>)
             ELSE FirstChecked(kwargs, k + 1, f, index)

IsElementCheckedStep(kwargs, f) ==
    FirstChecked(kwargs, 1, f, KwGet(kwargs, "index", DefaultIndex))

\* check_xml_element: the index guard, x, y = coordinates[index], the click
CheckXmlElementStep(coordinates, index, should_click) ==
    IF coordinates.kind = "raise" THEN Stop(Raises(coordinates.exc), <<>>)
    ELSE IF coordinates.value # <<>> /\ index < Len(coordinates.value)
    THEN LET xy == coordinates.value[index + 1]
         IN  IF Len(xy) # 2 THEN Stop(Raises("ValueError"), <<>>)
             ELSE Stop(Returns("True"),
                       IF should_click THEN <<click(xy[1], xy[2])>> ELSE <<>>)
    ELSE Continue

(***************************************************************************)
(* send_text                                                                *)
(***************************************************************************)
EAcute == "e-acute"   \* U+00E9, two bytes in UTF-8

\* char.encode("utf-8")
Utf8(c) ==
    IF c = "a" THEN <<97>>
    ELSE IF c = "b" THEN <<98>>
    ELSE IF c = "'" THEN <<39>>
    ELSE <<195, 169>>

RECURSIVE Encode(_)
Encode(text) == IF text = <<>> THEN <<>> ELSE Utf8(Head(text)) \o Encode(Tail(text))

B64Alphabet ==
    <<"A", "B", "C", "D", "E", "F", "G", "H", "I", "J", "K", "L", "M",
      "N", "O", "P", "Q", "R", "S", "T", "U", "V", "W", "X", "Y", "Z",
      "a", "b", "c", "d", "e", "f", "g", "h", "i", "j", "k", "l", "m",
      "n", "o", "p", "q", "r", "s", "t", "u", "v", "w", "x", "y", "z",
      "0", "1", "2", "3", "4", "5", "6", "7", "8", "9", "+", "/">>

Sextet(v) == B64Alphabet[v + 1]

\* base64.b64encode(bytes).decode("utf-8")
RECURSIVE b64encode(_)
b64encode(bytes) ==
    IF bytes = <<>> THEN <<>>
    ELSE IF Len(bytes) = 1
    THEN <<Sextet(bytes[1] \div 4), Sextet((bytes[1] % 4) * 16), "=", "=">>
    ELSE IF Len(bytes) = 2
    THEN <<Sextet(bytes[1] \div 4),
           Sextet((bytes[1] % 4) * 16 + bytes[2] \div 16),
           Sextet((bytes[2] % 16) * 4), "=">>
    ELSE <<Sextet(bytes[1] \div 4),
           Sextet((bytes[1] % 4) * 16 + bytes[2] \div 16),
           Sextet((bytes[2] % 16) * 4 + bytes[3] \div 64),
           Sextet(bytes[3] % 64)>>
         \o b64encode(SubSeq(bytes, 4, Len(bytes)))

ImeSet(component) == Shell(<<"ime set", component>>)
Broadcast(msg) == Shell(<<"am broadcast -a ADB_INPUT_B64 --es msg", msg>>)
InputText(text) == Shell(<<"input text", text>>)

\* per-character mode looping over the encoded bytes instead of the characters
TextCommands_PerByte(text, use_vn_keyboard, slow_typing) ==
    IF use_vn_keyboard
    THEN IF slow_typing
         THEN [i \in 1..Len(Encode(text)) |-> Broadcast(b64encode(<<Encode(text)[i]>>))]
         ELSE <<Broadcast(b64encode(Encode(text)))>>
    ELSE IF slow_typing
         THEN [i \in 1..Len(text) |-> InputText(<<text[i]>>)]
         ELSE <<InputText(text)>>

\* the shell commands that carry the text, after the keyboard is selected
TextCommands(text, use_vn_keyboard, slow_typing) ==
    IF use_vn_keyboard
    THEN IF slow_typing
         THEN [i \in 1..Len(text) |-> Broadcast(b64encode(Utf8(text[i])))]
         ELSE <<Broadcast(b64encode(Encode(text)))>>
    ELSE IF slow_typing
         THEN [i \in 1..Len(text) |-> InputText(<<text[i]>>)]
         ELSE <<InputText(text)>>

send_text(text, use_vn_keyboard, slow_typing) ==
    <<ImeSet(IF use_vn_keyboard THEN "com.android.adbkeyboard/.AdbIME"
                                ELSE "com.android.inputmethod.pinyin/.InputService"),
      Event("sleep 1")>>
    \o TextCommands(text, use_vn_keyboard, slow_typing)

(***************************************************************************)
(* Template matching.  A score matrix is a sequence of rows; scores and the *)
(* threshold are in tenths.                                                 *)
(***************************************************************************)
\* np.where(result >= threshold): the qualifying (y, x), 0-based
Where(m, threshold) ==
    {<<y, x>> \in (0..(Len(m) - 1)) \X (0..(Len(m[1]) - 1)) :
        m[y + 1][x + 1] >= threshold}

\* the first index pair of np.where: row-major order
FirstRowMajor(hits) ==
    CHOOSE p \in hits :
        \A q \in hits : p[1] < q[1] \/ (p[1] = q[1] /\ p[2] <= q[2])

\* get_coordinates_image with shape[0] and shape[1] taken the wrong way round
get_coordinates_image_SwappedShape(m, threshold, w, h) ==
    LET hits == Where(m, threshold)
    IN  IF hits # {}
        THEN LET p == FirstRowMajor(hits)
             IN  ReturnsCoords(<<p[2] + h \div 2, p[1] + w \div 2>>)
        ELSE Returns("False")

\* get_coordinates_image, given the matrix matchTemplate returned and the
\* shape (h, w) of the target image
get_coordinates_image(m, threshold, w, h) ==
    LET hits == Where(m, threshold)
    IN  IF hits # {}
        THEN LET p == FirstRowMajor(hits)
             IN  ReturnsCoords(<<p[2] + w \div 2, p[1] + h \div 2>>)
        ELSE Returns("False")

\* click_coordinates_image: the default threshold, click(*coords) on a match
click_coordinates_image(m, w, h) ==
    LET coords == get_coordinates_image(m, DefaultThreshold, w, h)
    IN  IF coords.value = "coords"
        THEN Stop(Returns("None"), <<click(coords.coords[1], coords.coords[2])>>)
        ELSE Stop(Returns("False"), <<>>)

(***************************************************************************)
(* The calls explored.                                                      *)
(***************************************************************************)
NoArgs ==
    [op |-> "", element |-> "", index |-> 0, retries |-> 0, times |-> 0,
     text |-> <<>>, label |-> "", kwargs |-> <<>>, vn |-> FALSE, slow |-> FALSE,
     threshold |-> 0, w |-> 1, h |-> 1]

Indexes == 0..MaxIndex
RetryArgs == 0..MaxRetries
TextArgs == SeqsUpTo(ContentChars, MaxTextLen)
TypedTexts == SeqsUpTo({"a", "'", EAcute}, MaxTextLen + 1)
Scores == {9, 10}
Thresholds == {9, 10}
Sides == 1..MaxSide

ScoreMatrices ==
    UNION {[1..r -> [1..c -> Scores]] : r \in Sides, c \in Sides}

\* the named conditions of is_element_checked, in keyword order
Conditions ==
    {<<KwStr("ok", XPathA)>>,
     <<KwStr("ok", XPathA), KwStr("err", XPathB)>>,
     <<KwStr("err", XPathB), KwStr("ok", XPathA)>>,
     <<KwStr("bad", XPathBad), KwStr("ok", XPathA)>>,
     <<KwStr("any", XPathAny)>>}

\* the control keywords given: none, repeat, index, or both
Controls ==
    {<<>>}
    \cup {<<KwInt("repeat", r)>> : r \in RetryArgs}
    \cup {<<KwInt("index", i)>> : i \in Indexes}
    \cup {<<KwInt("repeat", r), KwInt("index", i)>> : r \in RetryArgs, i \in Indexes}

IsElementCheckedKwargs ==
    {c \o k : c \in Conditions, k \in Controls}
    \cup {k \o c : c \in Conditions, k \in Controls}

CheckXmlElementKwargs ==
    {<<KwStr("element", e)>> \o k \o b :
        e \in XPaths, k \in Controls,
        b \in {<<>>, <<KwInt("click", 0)>>}}
    \cup {<<>>}

Calls ==
    {[NoArgs EXCEPT !.op = "check_text", !.label = l, !.retries = r] :
        l \in Names, r \in RetryArgs}
    \cup {[NoArgs EXCEPT !.op = "check_text_xml", !.text = t, !.retries = r] :
        t \in TextArgs, r \in RetryArgs}
    \cup {[NoArgs EXCEPT !.op = "click_coordinates_xml", !.element = e, !.index = i] :
        e \in XPaths, i \in Indexes}
    \cup {[NoArgs EXCEPT !.op = "scrollable", !.element = e, !.index = i, !.times = t] :
        e \in XPaths, i \in Indexes, t \in 0..MaxTimes}
    \cup {[NoArgs EXCEPT !.op = "is_element_checked", !.kwargs = k] :
        k \in IsElementCheckedKwargs}
    \cup {[NoArgs EXCEPT !.op = "check_xml_element", !.kwargs = k] :
        k \in CheckXmlElementKwargs}
    \cup {[NoArgs EXCEPT !.op = "find_xml", !.element = e, !.index = i] :
        e \in XPaths, i \in Indexes}
    \cup {[NoArgs EXCEPT !.op = "get_coordinates_xml", !.element = e] : e \in XPaths}
    \cup {[NoArgs EXCEPT !.op = "send_text", !.text = t, !.vn = v, !.slow = sl] :
        t \in TypedTexts, v \in BOOLEAN, sl \in BOOLEAN}
    \cup {[NoArgs EXCEPT !.op = "get_coordinates_image", !.threshold = t,
                         !.w = w, !.h = h] :
        t \in Thresholds, w \in Sides, h \in Sides}
    \cup {[NoArgs EXCEPT !.op = "click_coordinates_image", !.w = w, !.h = h] :
        w \in Sides, h \in Sides}

\* what an earlier call may have left at the dump path
StaleFiles ==
    {NoFile,
     dump_xml(Hierarchy(<<"a">>, <<>>), <<LF>>),
     dump_xml(Hierarchy(<<>>, <<Node("A", WF1)>>), <<LF>>)}

\* find_xml is handed the path of a dump made before the call
DumpedFiles == {dump_xml(Hierarchy(<<>>, n), <<LF>>) : n \in Trees} \cup {NoFile}

\* the loop budget of each polling method
Budget(c) ==
    IF c.op \in {"check_text", "check_text_xml"} THEN RangeLen(c.retries)
    ELSE IF c.op = "click_coordinates_xml" THEN ClickBudget
    ELSE IF c.op = "scrollable" THEN ScrollBudget
    ELSE RangeLen(KwGet(c.kwargs, "repeat", DefaultRepeat))

\* whether hierarchy h shows what call c polls for
TargetPresent(c, h) ==
    IF c.op = "check_text" THEN UiExists(h, c.label)
    ELSE IF c.op = "check_text_xml" THEN Contains(c.text, h.text)
    ELSE IF c.op \in {"click_coordinates_xml", "scrollable"}
    THEN XPathEval(h.nodes, c.element).value # <<>>
    ELSE IF c.op = "is_element_checked"
    THEN \E k \in 1..Len(c.kwargs) :
            /\ ~c.kwargs[k].isInt
            /\ XPathEval(h.nodes, c.kwargs[k].s).value # <<>>
    ELSE IF c.op = "check_xml_element"
    THEN Len(XPathEval(h.nodes, KwGetStr(c.kwargs, "element", "")).value)
            > KwGet(c.kwargs, "index", DefaultIndex)
    ELSE FALSE

\* The device may show any hierarchy at each dump.  A method that searches the
\* dumped text is explored over the texts, one that evaluates a path
\* expression or a selector over the trees.
Shown(c) == IF c.op = "check_text_xml" THEN TextHierarchies ELSE TreeHierarchies

\* os.linesep matters only to a method that reads the text back
Platforms(c) == IF c.op = "check_text_xml" THEN LineSeps ELSE {<<LF>>}

NoCallers == <<>>
NoWrite == [by |-> "", content |-> <<>>]

Init ==
    /\ call \in Calls
    /\ pc = "call"
    /\ attempt = 0
    /\ file \in (IF call.op = "find_xml" THEN DumpedFiles ELSE StaleFiles)
    /\ linesep \in Platforms(call)
    /\ log = <<>>
    /\ result = Pending
    /\ scores = <<>>
    /\ firstSeen = 0
    /\ callers = NoCallers
    /\ lastWrite = NoWrite

(***************************************************************************)
(* Actions.  A polling method takes one step per iteration of its loop:     *)
(* the dump (or the query), the lookup, and then the return or the sleep.   *)
(***************************************************************************)
Iterate(step, pre, h) ==
    /\ attempt' = attempt + 1
    /\ firstSeen' = IF firstSeen = 0 /\ TargetPresent(call, h)
                    THEN attempt + 1 ELSE firstSeen
    /\ IF step.stop
       THEN /\ pc' = "done"
            /\ result' = step.result
            /\ log' = log \o pre \o step.shell
       ELSE /\ pc' = "call"
            /\ result' = result
            /\ log' = log \o pre \o step.shell \o <<Event("sleep")>>

\* the for loop ran out: the return after it
Exhausted(v) ==
    /\ pc' = "done"
    /\ result' = Returns(v)
    /\ UNCHANGED <<attempt, log, firstSeen, file>>

Polling(op) == pc = "call" /\ call.op = op

check_text ==
    /\ Polling("check_text")
    /\ IF attempt < Budget(call)
       THEN \E h \in Shown(call) :
                /\ Iterate(CheckTextStep(call.label, h), <<Event("query")>>, h)
                /\ file' = file
       ELSE Exhausted("False")
    /\ UNCHANGED <<call, linesep, scores, raceVars>>

check_text_xml ==
    /\ Polling("check_text_xml")
    /\ IF attempt < Budget(call)
       THEN \E h \in Shown(call) :
                LET f == dump_xml(h, linesep)
                IN  /\ file' = f
                    /\ Iterate(CheckTextXmlStep(call.text, f), <<Event("dump")>>, h)
       ELSE Exhausted("False")
    /\ UNCHANGED <<call, linesep, scores, raceVars>>

click_coordinates_xml ==
    /\ Polling("click_coordinates_xml")
    /\ IF attempt < Budget(call)
       THEN \E h \in Shown(call) :
                LET f == dump_xml(h, linesep)
                    part == get_coordinates_xml(call.element, f)
                IN  /\ file' = f
                    /\ Iterate(ClickCoordinatesXmlStep(part, call.index),
                               <<Event("dump")>>, h)
       ELSE Exhausted("False")
    /\ UNCHANGED <<call, linesep, scores, raceVars>>

scrollable ==
    /\ Polling("scrollable")
    /\ IF attempt < Budget(call)
       THEN \E h \in Shown(call) :
                LET f == dump_xml(h, linesep)
                    part == get_coordinates_xml(call.element, f)
                IN  /\ file' = f
                    /\ Iterate(ScrollableStep(part, call.index, call.times),
                               <<Event("dump")>>, h)
       ELSE Exhausted("False")
    /\ UNCHANGED <<call, linesep, scores, raceVars>>

is_element_checked ==
    /\ Polling("is_element_checked")
    /\ IF attempt < Budget(call)
       THEN \E h \in Shown(call) :
                LET f == dump_xml(h, linesep)
                IN  /\ file' = f
                    /\ Iterate(IsElementCheckedStep(call.kwargs, f),
                               <<Event("dump")>>, h)
       ELSE Exhausted("notElement")
    /\ UNCHANGED <<call, linesep, scores, raceVars>>

check_xml_element ==
    /\ Polling("check_xml_element")
    /\ IF attempt < Budget(call)
       THEN \E h \in Shown(call) :
                LET f == dump_xml(h, linesep)
                    coordinates ==
                        get_coordinates_xml(KwGetStr(call.kwargs, "element", ""), f)
                IN  /\ file' = f
                    /\ Iterate(CheckXmlElementStep(
                                   coordinates,
                                   KwGet(call.kwargs, "index", DefaultIndex),
                                   KwGet(call.kwargs, "click", 1) # 0),
                               <<Event("dump")>>, h)
       ELSE Exhausted("False")
    /\ UNCHANGED <<call, linesep, scores, raceVars>>

\* a direct call of find_xml on the file at path_file
FindXml ==
    /\ Polling("find_xml")
    /\ LET found == find_xml(KwStr("element", call.element), file, call.index)
       IN  result' = IF found.kind = "raise" THEN Raises(found.exc)
                     ELSE ReturnsCoords(found.value)
    /\ pc' = "done"
    /\ UNCHANGED <<call, attempt, file, linesep, log, scores, firstSeen, raceVars>>

\* a direct call of get_coordinates_xml: a dump, then the lookup
GetCoordinatesXml ==
    /\ Polling("get_coordinates_xml")
    /\ \E h \in Shown(call) :
        LET f == dump_xml(h, linesep)
            found == get_coordinates_xml(call.element, f)
        IN  /\ file' = f
            /\ result' = IF found.kind = "raise" THEN Raises(found.exc)
                         ELSE ReturnsCoords(found.value)
    /\ log' = log \o <<Event("dump")>>
    /\ pc' = "done"
    /\ UNCHANGED <<call, attempt, linesep, scores, firstSeen, raceVars>>

SendText ==
    /\ Polling("send_text")
    /\ log' = log \o send_text(call.text, call.vn, call.slow)
    /\ result' = Returns("None")
    /\ pc' = "done"
    /\ UNCHANGED <<call, attempt, file, linesep, scores, firstSeen, raceVars>>

GetCoordinatesImage ==
    /\ Polling("get_coordinates_image")
    /\ \E m \in ScoreMatrices :
        /\ scores' = m
        /\ result' = get_coordinates_image(m, call.threshold, call.w, call.h)
    /\ log' = log \o <<Event("screenshot")>>
    /\ pc' = "done"
    /\ UNCHANGED <<call, attempt, file, linesep, firstSeen, raceVars>>

ClickCoordinatesImage ==
    /\ Polling("click_coordinates_image")
    /\ \E m \in ScoreMatrices :
        LET step == click_coordinates_image(m, call.w, call.h)
        IN  /\ scores' = m
            /\ result' = step.result
            /\ log' = log \o <<Event("screenshot")>> \o step.shell
    /\ pc' = "done"
    /\ UNCHANGED <<call, attempt, file, linesep, firstSeen, raceVars>>

Next ==
    \/ check_text
    \/ check_text_xml
    \/ click_coordinates_xml
    \/ scrollable
    \/ is_element_checked
    \/ check_xml_element
    \/ FindXml
    \/ GetCoordinatesXml
    \/ SendText
    \/ GetCoordinatesImage
    \/ ClickCoordinatesImage

Spec == Init /\ [][Next]_vars

(***************************************************************************)
(* Concurrent callers.  Two callers run check_text_xml on the same ADB      *)
(* object with no lock; each statement that touches the shared dump file is *)
(* one step.  The file is empty between open(path, "w") and the write.      *)
(***************************************************************************)
Callers == {"A", "B"}
RaceContents == {<<>>, <<"a">>, <<LF>>}
RaceTexts == {<<"a">>, <<LF>>}

NewCaller(t, r) ==
    [text |-> t, retries |-> r, pc |-> "dump_hierarchy", attempt |-> 0,
     xml_content |-> <<>>, read |-> <<>>, seen |-> NoWrite, result |-> "pending"]

InitRace ==
    /\ callers \in [Callers -> {NewCaller(t, r) : t \in RaceTexts, r \in 1..MaxRetries}]
    /\ file = NoFile
    /\ linesep \in LineSeps
    /\ lastWrite = NoWrite
    /\ call = NoArgs
    /\ pc = "idle"
    /\ attempt = 0
    /\ log = <<>>
    /\ result = Pending
    /\ scores = <<>>
    /\ firstSeen = 0

\* xml_content = self.device.dump_hierarchy(...)
R_DumpHierarchy(c) ==
    /\ callers[c].pc = "dump_hierarchy"
    /\ \E h \in RaceContents :
        callers' = [callers EXCEPT ![c].xml_content = h, ![c].pc = "open"]
    /\ UNCHANGED <<file, linesep, lastWrite, seqVars>>

\* open(xml_file_path, "w"): the file at the fixed path is truncated
R_Open(c) ==
    /\ callers[c].pc = "open"
    /\ file' = dump_xml(Hierarchy(<<>>, <<>>), linesep)
    /\ lastWrite' = [by |-> c, content |-> <<>>]
    /\ callers' = [callers EXCEPT ![c].pc = "write"]
    /\ UNCHANGED <<linesep, seqVars>>

\* file.write(xml_content) and the close that ends the with block
R_Write(c) ==
    /\ callers[c].pc = "write"
    /\ LET f == dump_xml(Hierarchy(callers[c].xml_content, <<>>), linesep)
       IN  /\ file' = f
           /\ lastWrite' = [by |-> c, content |-> f.text]
    /\ callers' = [callers EXCEPT ![c].pc = "read"]
    /\ UNCHANGED <<linesep, seqVars>>

\* a caller that tests the content it dumped itself instead of the file
ReadBack_OwnBuffer(c) == dump_xml(Hierarchy(callers[c].xml_content, <<>>), linesep)

\* open(windows_xml_path, "r"): the file the caller reads back
ReadBack(c) == file

\* xml_content = file.read(), the test, and the return or the sleep
R_ReadTest(c) ==
    /\ callers[c].pc = "read"
    /\ LET f == ReadBack(c)
           step == CheckTextXmlStep(callers[c].text, f)
           last == callers[c].attempt + 1 >= RangeLen(callers[c].retries)
       IN  callers' =
             [callers EXCEPT
                ![c].read = TranslateRead(f.text),
                ![c].seen = lastWrite,
                ![c].attempt = @ + 1,
                ![c].result = IF step.stop THEN "True"
                              ELSE IF last THEN "False" ELSE "pending",
                ![c].pc = IF step.stop \/ last THEN "done" ELSE "dump_hierarchy"]
    /\ UNCHANGED <<file, linesep, lastWrite, seqVars>>

NextRace ==
    \E c \in Callers :
        \/ R_DumpHierarchy(c)
        \/ R_Open(c)
        \/ R_Write(c)
        \/ R_ReadTest(c)

SpecRace == InitRace /\ [][NextRace]_vars

(***************************************************************************)
(* Properties.                                                              *)
(***************************************************************************)
Done == pc = "done"
Returned(v) == result.kind = "return" /\ result.value = v
IsShell(e) == e.ev = "shell"
IsCycle(e) == e.ev \in {"dump", "query"}
Taps == SelectSeq(log, IsTap)
Cycles == Len(SelectSeq(log, IsCycle))

\* the well-formed bounds strings with the corner (a, b) each encodes
WellFormedTable ==
    {<<FormatBounds(a, b, 20, 30), a, b>> : a, b \in Corners} \cup {<<WF1, 1, 2>>}

IsWellFormed(n) == n.hasBounds /\ \E r \in WellFormedTable : r[1] = n.bounds

TopLeft(n) ==
    LET r == CHOOSE r \in WellFormedTable : r[1] = n.bounds IN <<r[2], r[3]>>

\* the nodes the call's expression selects in the hierarchy last dumped
Matched(element) == XPathEval(file.nodes, element).value

\* C1: a polling lookup (check_text, check_text_xml, click_coordinates_xml)
\* whose target is first present on the Nth attempt returns True after exactly
\* N cycles; one whose target is never present returns False after exactly
\* its budget of attempts.
C1_PollingCycles ==
    (Done /\ call.op \in {"check_text", "check_text_xml", "click_coordinates_xml"})
    => IF firstSeen > 0
       THEN Returned("True") /\ Cycles = firstSeen
       ELSE Returned("False") /\ Cycles = Budget(call)

\* shell invocation e carries the text t, in the form of the chosen backend
Carries(e, t) ==
    IF call.vn
    THEN /\ e.cmd[1] = "am broadcast -a ADB_INPUT_B64 --es msg"
         /\ e.cmd[2] = b64encode(Encode(t))
    ELSE /\ e.cmd[1] = "input text"
         /\ e.cmd[2] = t

\* C2: send_text selects the keyboard and then, in per-character mode, issues
\* one shell invocation per character of the text, the i-th carrying the i-th
\* character; in batch mode it issues exactly one, carrying the whole text.
C2_SendTextInvocations ==
    (Done /\ call.op = "send_text")
    => LET shells == SelectSeq(log, IsShell)
           carrying == Tail(shells)
       IN  /\ shells # <<>>
           /\ shells[1].cmd[1] = "ime set"
           /\ IF call.slow
              THEN /\ Len(carrying) = Len(call.text)
                   /\ \A i \in 1..Len(carrying) : Carries(carrying[i], <<call.text[i]>>)
              ELSE /\ Len(carrying) = 1
                   /\ Carries(carrying[1], call.text)

C2_Witness ==
    /\ Done
    /\ call.op = "send_text"
    /\ call.slow
    /\ call.vn
    /\ call.text = <<EAcute, "a">>
    /\ Len(SelectSeq(log, IsShell)) = 3

\* C3: find_xml and get_coordinates_xml extract (a, b) as integers from every
\* matched element whose bounds read "[a,b][c,d]", and yield an empty result,
\* without raising, when a matched element's bounds are malformed or missing.
C3_BoundsParsed ==
    (Done /\ call.op \in {"find_xml", "get_coordinates_xml"}
          /\ Matched(call.element) # <<>>)
    => LET matched == Matched(call.element)
       IN  IF \A i \in 1..Len(matched) : IsWellFormed(matched[i])
           THEN /\ result.kind = "return"
                /\ result.coords = [i \in 1..Len(matched) |-> TopLeft(matched[i])]
           ELSE /\ result.kind = "return"
                /\ result.coords = <<>>

\* C4: no polling operation raises, whatever the index and the budget.
C4_NeverRaises ==
    (call.op \in {"check_text", "check_text_xml", "click_coordinates_xml",
                  "scrollable", "is_element_checked", "check_xml_element"})
    => result.kind # "raise"

\* C5: is_element_checked returns the name of the first condition, in keyword
\* order, whose expression matches the hierarchy dumped in the earliest
\* attempt where any condition matches, "notElement" if none matches within
\* the budget, and never a control keyword.
C5_FirstCondition ==
    (Done /\ call.op = "is_element_checked")
    => /\ IF firstSeen > 0
          THEN /\ Cycles = firstSeen
               /\ result.kind = "return"
               /\ \E k \in 1..Len(call.kwargs) :
                    /\ ~call.kwargs[k].isInt
                    /\ Matched(call.kwargs[k].s) # <<>>
                    /\ \A j \in 1..(k - 1) :
                          call.kwargs[j].isInt \/ Matched(call.kwargs[j].s) = <<>>
                    /\ result.value = call.kwargs[k].key
          ELSE Returned("notElement") /\ Cycles = Budget(call)
       /\ result.value \notin {"repeat", "index"}

\* C6: check_xml_element polls at most `repeat` times; it returns True at the
\* first attempt where the element has more than `index` matches, tapping the
\* index-th match's coordinates exactly once iff `click` is true; while
\* matches exist but `index` is out of range it keeps polling, and it returns
\* False once the budget is exhausted, with no tap.
C6_CheckXmlElement ==
    (Done /\ call.op = "check_xml_element")
    => LET index == KwGet(call.kwargs, "index", DefaultIndex)
           should_click == KwGet(call.kwargs, "click", 1) # 0
           matched == Matched(KwGetStr(call.kwargs, "element", ""))
       IN  /\ Cycles <= Budget(call)
           /\ IF firstSeen > 0
              THEN /\ Returned("True")
                   /\ Cycles = firstSeen
                   /\ IF should_click
                      THEN /\ Len(Taps) = 1
                           /\ IsWellFormed(matched[index + 1])
                                => Taps[1].cmd = <<"input tap",
                                                   TopLeft(matched[index + 1])[1],
                                                   TopLeft(matched[index + 1])[2]>>
                      ELSE Taps = <<>>
              ELSE /\ ~Returned("True")
                   /\ Taps = <<>>
                   /\ matched # <<>> => Returned("False") /\ Cycles = Budget(call)

\* C7: check_text_xml tests the content its own dump wrote: it returns True
\* exactly when the text is a substring of the content dumped in one of its
\* attempts, whatever an earlier call left in the file.
C7_FreshDumpRoundTrip ==
    (Done /\ call.op = "check_text_xml")
    => /\ result.kind = "return"
       /\ (result.value = "True") <=> (firstSeen > 0)

\* location (y, x) of the score matrix meets the threshold
Qualifies(y, x, threshold) ==
    /\ y \in 0..(Len(scores) - 1)
    /\ x \in 0..(Len(scores[1]) - 1)
    /\ scores[y + 1][x + 1] >= threshold

IsFirstMatch(y, x, threshold) ==
    /\ Qualifies(y, x, threshold)
    /\ \A y2 \in 0..(MaxSide + 1), x2 \in 0..(MaxSide + 1) :
          Qualifies(y2, x2, threshold) => y < y2 \/ (y = y2 /\ x <= x2)

AnyMatch(threshold) ==
    \E y \in 0..(MaxSide + 1), x \in 0..(MaxSide + 1) : Qualifies(y, x, threshold)

\* C8: get_coordinates_image returns the first location, in row-major order,
\* whose score is >= the threshold, offset by (width // 2, height // 2), and
\* False when none qualifies; click_coordinates_image taps there when there is
\* a match at the default threshold, and otherwise taps nowhere and returns
\* False.
C8_FirstMatchCentre ==
    /\ (Done /\ call.op = "get_coordinates_image")
       => IF AnyMatch(call.threshold)
          THEN /\ result.value = "coords"
               /\ \E y \in 0..(MaxSide + 1), x \in 0..(MaxSide + 1) :
                    /\ IsFirstMatch(y, x, call.threshold)
                    /\ result.coords = <<x + call.w \div 2, y + call.h \div 2>>
          ELSE Returned("False")
    /\ (Done /\ call.op = "click_coordinates_image")
       => IF AnyMatch(DefaultThreshold)
          THEN /\ Len(Taps) = 1
               /\ \E y \in 0..(MaxSide + 1), x \in 0..(MaxSide + 1) :
                    /\ IsFirstMatch(y, x, DefaultThreshold)
                    /\ Taps[1].cmd = <<"input tap", x + call.w \div 2,
                                       y + call.h \div 2>>
          ELSE Taps = <<>> /\ Returned("False")

C8_Witness ==
    /\ Done
    /\ call.op = "get_coordinates_image"
    /\ call.w = 2
    /\ call.h = 1
    /\ Len(scores) = 2
    /\ Len(scores[1]) = 2
    /\ ~Qualifies(0, 0, call.threshold)
    /\ Qualifies(0, 1, call.threshold)
    /\ Qualifies(1, 0, call.threshold)
    /\ result.coords = <<2, 0>>

\* C9: with no lock on the fixed dump path the last writer wins: what a caller
\* reads back is whatever was written to the file last, by either caller (the
\* empty content of a file just truncated included), so a caller can read the
\* other caller's dump instead of its own.
C9_LastWriterWins ==
    \A c \in DOMAIN callers :
        callers[c].seen.by # "" =>
            callers[c].read = TranslateRead(callers[c].seen.content)

C9_Witness ==
    \E c \in DOMAIN callers :
        /\ callers[c].pc = "done"
        /\ callers[c].seen.by \notin {"", c}
        /\ callers[c].read # TranslateRead(TranslateWrite(callers[c].xml_content, linesep))
        /\ callers[c].result = "True"
        /\ ~Contains(callers[c].text, callers[c].xml_content)

\* C10: click_coordinates_xml and check_xml_element tap at most once,
\* scrollable taps exactly `times` times at one place; the taps are issued
\* only in the attempt that returns True, right after its dump, nothing
\* follows them, and a call that does not return True has issued none.
C10_TapsOnlyOnSuccess ==
    (call.op \in {"click_coordinates_xml", "check_xml_element", "scrollable"})
    => LET n == Len(Taps)
       IN  /\ call.op # "scrollable" => n <= 1
           /\ (call.op = "scrollable" /\ Done /\ Returned("True"))
                 => n = RangeLen(call.times)
           /\ \A i, j \in 1..n : Taps[i] = Taps[j]
           /\ n > 0 =>
                /\ Done
                /\ Returned("True")
                /\ Len(log) > n
                /\ \A i \in (Len(log) - n + 1)..Len(log) : IsTap(log[i])
                /\ log[Len(log) - n].ev = "dump"

C10_Witness ==
    /\ Done
    /\ call.op = "scrollable"
    /\ call.times = 2
    /\ attempt = 3
    /\ Len(Taps) = 2
    /\ Returned("True")

====
